---- MODULE Spec2Model ----
(***************************************************************************)
(* Cache management of the MagicDec inference engine.                      *)
(*                                                                         *)
(* Engine/model_selfspec.py: the self-speculation Transformer, whose       *)
(* per-layer KVCache holds a full cache (k_cache, v_cache) and a bounded   *)
(* streaming cache (draft_k_cache, draft_v_cache) with a 16-slot attention *)
(* sink.  Engine/model.py: the target Transformer with its paged cache.    *)
(*                                                                         *)
(* A cache slot s of the code (0-based) is element s+1 of a sequence here. *)
(* A key or value vector is modelled by the identity of the token it was   *)
(* projected from (layer, batch row, index in append order); a key also    *)
(* carries the rotary angle applied to it, as a multiple of the base       *)
(* frequencies (rotations compose by adding their positions).  A slot      *)
(* that was never written holds zeros.                                     *)
(***************************************************************************)
EXTENDS Integers, Sequences, FiniteSets, TLC

\* ---------------------------------------------------------------- constants

\* The attention-sink length, the literal 16 of KVCache.prefill.
SinkLen == 16

\* Layers of the model: the "68m" entry of transformer_configs.
n_layer == 2

\* ------------------------------------------------------------------- bounds

\* Largest max_batch_size / max_seq_length passed to setup_caches.
MaxBatch == 2
MaxSeq == 2
\* Largest sliding region: streaming budgets are SinkLen+MaxWindow-1 and
\* SinkLen+MaxWindow.
MaxWindow == 3
\* Largest buffer passed to setup_caches.
MaxBuffer == 1
\* Cap on the number of tokens appended to a sequence.
MaxTotal == 23
\* Cap on the number of draft_prefill calls where each call has more inputs
\* than its chunk length.
MaxCalls == 3

\* Largest num_pages / page_size passed to the target setup_caches, and the
\* cap on the tokens passed to the target model.
MaxPages == 2
MaxPageSize == 2
MaxTargetTokens == 3

\* Pieces a name passed to from_name is made of.
MaxParts == 2
\* Largest low_freq_factor / high_freq_factor, original context length,
\* scaling_factor and frequency base of a long-context configuration.
MaxFactor == 3
MaxContext == 6
MaxScale == 2
MaxBase == 3
\* Ranks of a tensor-parallel group.
MaxRanks == 2
\* Cap on the tokens appended to the paged cache by batches of sequences.
MaxPagedTokens == 5

\* Tokens the draft_prefill calls interleaved with target calls pass in all.
MaxDraftTokens == 4

Layers == 1..n_layer
Budgets == {SinkLen + MaxWindow - 1, SinkLen + MaxWindow}
\* Chunk lengths: shorter than the sink, than the sliding region, equal to
\* them, longer than the whole budget.
ChunkLens == {1, 2, MaxWindow, SinkLen, SinkLen + MaxWindow + 1}
DraftLens == ChunkLens \ {1}

\* Python's None (an attribute not yet set).
None == [none |-> TRUE]

Min(a, b) == IF a <= b THEN a ELSE b

\* ------------------------------------------------------------------ vectors

\* torch.zeros: a slot never written.
ZeroK == [lay |-> 0, seq |-> 0, idx |-> 0, ang |-> 0, rot |-> 0]
ZeroV == [lay |-> 0, seq |-> 0, idx |-> 0]

\* The key and the value that layer l's wqkv projects from the idx-th token
\* of batch row b.
KeyOf(l, b, i) == [lay |-> l, seq |-> b, idx |-> i, ang |-> 0, rot |-> 0]
ValOf(l, b, i) == [lay |-> l, seq |-> b, idx |-> i]

\* k, v of Attention.draft_prefill: the projections of the n tokens that
\* follow the `done` tokens already processed, for every batch row.
NewKeys(l, B, done, n) == [b \in 1..B |-> [j \in 1..n |-> KeyOf(l, b, done + j)]]
NewVals(l, B, done, n) == [b \in 1..B |-> [j \in 1..n |-> ValOf(l, b, done + j)]]

\* One rotation pair of apply_rotary_emb: the vector turned by the angle of
\* position p.  Zeros stay zeros; two rotations add their angles; rot counts
\* the rotations that turned the vector (position 0 multiplies by 1).
Rotate(x, p) ==
  IF x.idx = 0 \/ p = 0 THEN x ELSE [x EXCEPT !.ang = @ + p, !.rot = @ + 1]

\* apply_rotary_emb(x, freqs_cis): x is [B, L], freqs the positions [B, L].
apply_rotary_emb(x, freqs) ==
  [b \in DOMAIN x |-> [i \in DOMAIN x[b] |-> Rotate(x[b][i], freqs[b][i])]]

\* A slip in the index: positions 1..sb instead of 0..sb-1.
StreamingFreqsFromOne(B, sb) == [b \in 1..B |-> [i \in 1..sb |-> i]]

\* self.freqs_cis[torch.arange(streaming_budget).unsqueeze(0).repeat(B, 1)]
StreamingFreqs(B, sb) == [b \in 1..B |-> [i \in 1..sb |-> i - 1]]

\* ------------------------------------------------------------------ KVCache

\* KVCache.__init__
KVCacheInit(B, S, sb, buf) ==
  [ k_cache          |-> [b \in 1..B |-> [i \in 1..S |-> ZeroK]],
    v_cache          |-> [b \in 1..B |-> [i \in 1..S |-> ZeroV]],
    draft_k_cache    |-> [b \in 1..B |-> [i \in 1..(sb + buf) |-> ZeroK]],
    draft_v_cache    |-> [b \in 1..B |-> [i \in 1..(sb + buf) |-> ZeroV]],
    streaming_budget |-> sb ]

\* A slip in the slice: [:, :m], the oldest entries kept and the new dropped.
LastOfAsFirst(s, m) == SubSeq(s, 1, m)

\* x[:, -m:] for 1 <= m <= Len
LastOf(s, m) == SubSeq(s, Len(s) - m + 1, Len(s))

\* The branch KVCache.prefill takes: cache_len[0].item() + k_val.shape[1]
\* against streaming_budget.
PrefillOverflows(kc, cache_len, n) == ~(cache_len[1] + n <= kc.streaming_budget)

\* A slip in the slice: the write starts one slot late.
WriteAtNext(out, c, val) ==
  [b \in DOMAIN out |->
     [i \in DOMAIN out[b] |->
        IF c + 1 < i /\ i <= c + 1 + Len(val[b]) THEN val[b][i - c - 1] ELSE out[b][i]]]

\* The non-overflow branch: out[:, c : c+n] = val
WriteAt(out, c, val) ==
  [b \in DOMAIN out |->
     [i \in DOMAIN out[b] |->
        IF c < i /\ i <= c + Len(val[b]) THEN val[b][i - c] ELSE out[b][i]]]

\* A slip in the overflow branch: the whole window [0, sb) slides, the sink
\* with it.
ShiftInNoSink(out, sb, val) ==
  [b \in DOMAIN out |->
     LET new == SubSeq(SubSeq(out[b], 1, sb) \o val[b],
                       Len(val[b]) + 1, Len(val[b]) + sb)
     IN  [i \in DOMAIN out[b] |-> IF i <= sb THEN new[i] ELSE out[b][i]]]

\* The overflow branch:
\*   new = torch.cat((out[:, 16:sb], val), dim=1)[:, -sb+16:]
\*   out[:, 16:sb] = new
ShiftIn(out, sb, val) ==
  [b \in DOMAIN out |->
     LET new == LastOf(SubSeq(out[b], SinkLen + 1, sb) \o val[b], sb - SinkLen)
     IN  [i \in DOMAIN out[b] |->
            IF SinkLen < i /\ i <= sb THEN new[i - SinkLen] ELSE out[b][i]]]

\* KVCache.prefill(cache_len, k_val, v_val): the cache after the call and the
\* length of the views [:, :len] of the two draft caches it returns.
KVCachePrefill(kc, cache_len, k_val, v_val) ==
  LET c  == cache_len[1]
      n  == Len(k_val[1])
      sb == kc.streaming_budget
  IN  IF ~PrefillOverflows(kc, cache_len, n)
      THEN [ cache |-> [kc EXCEPT !.draft_k_cache = WriteAt(@, c, k_val),
                                  !.draft_v_cache = WriteAt(@, c, v_val)],
             len   |-> c + n ]
      ELSE [ cache |-> [kc EXCEPT !.draft_k_cache = ShiftIn(@, sb, k_val),
                                  !.draft_v_cache = ShiftIn(@, sb, v_val)],
             len   |-> sb ]

\* x[:, :len]
ViewOf(x, len) == [b \in DOMAIN x |-> SubSeq(x[b], 1, len)]

\* The final-chunk snapshot of Attention.draft_prefill:
\*   k = apply_rotary_emb(k, streaming_freqs[:, :k.shape[1]])
\*   if is_last: self.kv_cache.draft_k_cache[:, :k.shape[1]] = k
Snapshot(kc, sfreqs, len) ==
  [kc EXCEPT !.draft_k_cache =
     WriteAt(@, 0, apply_rotary_emb(ViewOf(@, len), ViewOf(sfreqs, len)))]

\* A slip in the flag: the snapshot is taken on every chunk.
AttentionDraftPrefillAlways(kc, sfreqs, cache_seqlens, k, v, is_last) ==
  LET r == KVCachePrefill(kc, cache_seqlens, k, v)
  IN  [ cache |-> Snapshot(r.cache, sfreqs, r.len), len |-> r.len ]

\* Attention.draft_prefill: what it leaves in the layer's cache, and the
\* length of the key view it hands to the kernel.
AttentionDraftPrefill(kc, sfreqs, cache_seqlens, k, v, is_last) ==
  LET r == KVCachePrefill(kc, cache_seqlens, k, v)
  IN  [ cache |-> IF is_last THEN Snapshot(r.cache, sfreqs, r.len) ELSE r.cache,
        len   |-> r.len ]

\* ------------------------------------------------------------ configuration

\* An optional field of ModelArgs: << >> is None, << x >> is the value x.
Unset == << >>

\* transformer_configs, in the order of the table, each entry with the
\* fields the dataclass and __post_init__ give it (n_local_heads defaults to
\* n_head, scaling_factor to 1, the long-context fields to None).
transformer_configs ==
  << [key |-> "llama-2-7b", block_size |-> 4096, n_layer |-> 32, n_head |-> 32,
      n_local_heads |-> 32, rope_base |-> 10000, scaling_factor |-> 1,
      low_freq_factor |-> Unset, high_freq_factor |-> Unset,
      original_max_position_embeddings |-> Unset],
     [key |-> "llama-2-7b-32k", block_size |-> 32768, n_layer |-> 32, n_head |-> 32,
      n_local_heads |-> 32, rope_base |-> 10000, scaling_factor |-> 8,
      low_freq_factor |-> Unset, high_freq_factor |-> Unset,
      original_max_position_embeddings |-> Unset],
     [key |-> "llama-2-13b", block_size |-> 4096, n_layer |-> 40, n_head |-> 40,
      n_local_heads |-> 40, rope_base |-> 10000, scaling_factor |-> 1,
      low_freq_factor |-> Unset, high_freq_factor |-> Unset,
      original_max_position_embeddings |-> Unset],
     [key |-> "llama-2-70b", block_size |-> 4096, n_layer |-> 80, n_head |-> 64,
      n_local_heads |-> 8, rope_base |-> 10000, scaling_factor |-> 1,
      low_freq_factor |-> Unset, high_freq_factor |-> Unset,
      original_max_position_embeddings |-> Unset],
     [key |-> "llama-3-8b", block_size |-> 8192, n_layer |-> 32, n_head |-> 32,
      n_local_heads |-> 8, rope_base |-> 500000, scaling_factor |-> 1,
      low_freq_factor |-> Unset, high_freq_factor |-> Unset,
      original_max_position_embeddings |-> Unset],
     [key |-> "llama-3-70b", block_size |-> 8192, n_layer |-> 80, n_head |-> 64,
      n_local_heads |-> 8, rope_base |-> 500000, scaling_factor |-> 1,
      low_freq_factor |-> Unset, high_freq_factor |-> Unset,
      original_max_position_embeddings |-> Unset],
     [key |-> "68m", block_size |-> 2048, n_layer |-> 2, n_head |-> 12,
      n_local_heads |-> 12, rope_base |-> 10000, scaling_factor |-> 1,
      low_freq_factor |-> Unset, high_freq_factor |-> Unset,
      original_max_position_embeddings |-> Unset],
     [key |-> "tinyllama", block_size |-> 2048, n_layer |-> 22, n_head |-> 32,
      n_local_heads |-> 4, rope_base |-> 10000, scaling_factor |-> 1,
      low_freq_factor |-> Unset, high_freq_factor |-> Unset,
      original_max_position_embeddings |-> Unset],
     [key |-> "llama-3.1-8b", block_size |-> 131072, n_layer |-> 32, n_head |-> 32,
      n_local_heads |-> 8, rope_base |-> 500000, scaling_factor |-> 8,
      low_freq_factor |-> << 1 >>, high_freq_factor |-> << 4 >>,
      original_max_position_embeddings |-> << 8192 >>] >>

\* The keys of the table, in its order.
ConfigKeys == [i \in DOMAIN transformer_configs |-> transformer_configs[i].key]

\* cls(**transformer_configs[name])
ModelArgs(name) ==
  transformer_configs[CHOOSE i \in DOMAIN transformer_configs : ConfigKeys[i] = name]

\* str.lower(), letter by letter.
UpperCase == "ABCDEFGHIJKLMNOPQRSTUVWXYZ"
LowerCase == "abcdefghijklmnopqrstuvwxyz"
LowerChar(c) ==
  IF \E i \in 1..Len(UpperCase) : SubSeq(UpperCase, i, i) = c
  THEN LET i == CHOOSE j \in 1..Len(UpperCase) : SubSeq(UpperCase, j, j) = c
       IN  SubSeq(LowerCase, i, i)
  ELSE c

RECURSIVE lower(_)
lower(s) ==
  IF Len(s) = 0 THEN s
  ELSE LowerChar(SubSeq(s, 1, 1)) \o lower(SubSeq(s, 2, Len(s)))

\* a in b, for strings.
IsIn(a, b) ==
  \E i \in 1..(Len(b) - Len(a) + 1) : SubSeq(b, i, i + Len(a) - 1) = a

\* The mistaken sort: the matches left in the order of the table.
SortUnsorted(keys) == keys

\* list.sort(key=len, reverse=True): a stable sort, longest first.
RECURSIVE SortByLenReverse(_)
SortByLenReverse(keys) ==
  IF Len(keys) <= 1 THEN keys
  ELSE LET m == CHOOSE i \in 1..Len(keys) :
                   /\ \A j \in 1..Len(keys) : Len(keys[j]) <= Len(keys[i])
                   /\ \A j \in 1..(i - 1) : Len(keys[j]) < Len(keys[i])
           rest == [j \in 1..(Len(keys) - 1) |-> IF j < m THEN keys[j] ELSE keys[j + 1]]
       IN  << keys[m] >> \o SortByLenReverse(rest)

\* The fuzzy search of from_name: the keys that, lower-cased, occur in the
\* lower-cased name, in the order of the table.
FuzzyMatches(name) ==
  SelectSeq(ConfigKeys, LAMBDA k : IsIn(lower(k), lower(name)))

\* ModelArgs.from_name(name): the key of the entry returned, or the error
\* raised (the assert on two best matches of one length, the IndexError of
\* config[0] on an empty list).
from_name(name) ==
  IF \E i \in DOMAIN ConfigKeys : ConfigKeys[i] = name
  THEN [ok |-> TRUE, key |-> name]
  ELSE LET found  == FuzzyMatches(name)
           sorted == IF Len(found) > 1 THEN SortByLenReverse(found) ELSE found
       IN  IF Len(found) > 1 /\ Len(sorted[1]) = Len(sorted[2])
           THEN [ok |-> FALSE, error |-> "AssertionError"]
           ELSE IF Len(sorted) = 0
           THEN [ok |-> FALSE, error |-> "IndexError"]
           ELSE [ok |-> TRUE, key |-> sorted[1]]

\* -------------------------------------------------------- rotary frequencies

\* A frequency is represented by its wavelength w (in units of 2*pi, so the
\* wavelen of the code is w) and the exact factor num/den, in lowest terms,
\* by which the rescaling multiplied the base frequency of that wavelength.
RECURSIVE GCD(_, _)
GCD(a, b) == IF b = 0 THEN a ELSE GCD(b, a % b)

Abs(a) == IF a < 0 THEN -a ELSE a

Times(w, num, den) ==
  LET g == GCD(Abs(num), Abs(den))
      sgn == IF den < 0 THEN -1 ELSE 1
  IN  [w |-> w, num |-> sgn * (num \div g), den |-> sgn * (den \div g)]

\* freqs = 1 / base ** (arange(0, n_elem, 2) / n_elem) for n_elem = 4, base
\* standing for the square root of rope_base: wavelengths 1 and base.
InvFreq(base) == << 1, base >>

\* The mistaken branch order of the rescaling: the low-frequency test first.
Llama3FreqLowFirst(w, old_context_len, scaling_factor, low_freq_factor, high_freq_factor) ==
  IF w * low_freq_factor > old_context_len THEN Times(w, 1, scaling_factor)
  ELSE IF w * high_freq_factor < old_context_len THEN Times(w, 1, 1)
  ELSE IF low_freq_factor = high_freq_factor THEN [error |-> "AssertionError"]
  ELSE LET a == old_context_len - low_freq_factor * w
           b == w * (high_freq_factor - low_freq_factor)
       IN  Times(w, (b - a) + a * scaling_factor, b * scaling_factor)

\* The body of the loop of _compute_llama3_parameters for the frequency of
\* wavelength w, the factors positive:
\*   wavelen < high_freq_wavelen, i.e. w < old_context_len / high_freq_factor
\*   wavelen > low_freq_wavelen,  i.e. w > old_context_len / low_freq_factor
\*   smooth = (old_context_len / wavelen - low) / (high - low) = a / b
\*   (1 - smooth) * freq / scaling_factor + smooth * freq
Llama3Freq(w, old_context_len, scaling_factor, low_freq_factor, high_freq_factor) ==
  IF w * high_freq_factor < old_context_len THEN Times(w, 1, 1)
  ELSE IF w * low_freq_factor > old_context_len THEN Times(w, 1, scaling_factor)
  ELSE IF low_freq_factor = high_freq_factor THEN [error |-> "AssertionError"]
  ELSE LET a == old_context_len - low_freq_factor * w
           b == w * (high_freq_factor - low_freq_factor)
       IN  Times(w, (b - a) + a * scaling_factor, b * scaling_factor)

\* _compute_llama3_parameters(inv_freq, old_context_len, scaling_factor,
\* low_freq_factor, high_freq_factor): the new frequencies, or the error
\* raised (None / low_freq_factor is a TypeError).  The optional arguments
\* are << >> or << value >>.
compute_llama3_parameters(inv_freq, old_context_len, scaling_factor, low_freq_factor, high_freq_factor) ==
  IF old_context_len = Unset THEN [ok |-> FALSE, error |-> "TypeError"]
  ELSE LET new(i) == Llama3Freq(inv_freq[i], old_context_len[1], scaling_factor,
                                low_freq_factor[1], high_freq_factor[1])
       IN  IF \E i \in DOMAIN inv_freq : "error" \in DOMAIN new(i)
           THEN [ok |-> FALSE, error |-> "AssertionError"]
           ELSE [ok |-> TRUE, freqs |-> [i \in DOMAIN inv_freq |-> new(i)]]

\* precompute_freqs_cis(seq_len, n_elem, base, dtype, scaling_factor,
\* low_freq_factor, high_freq_factor, original_max_position_embeddings):
\* the table, represented by its length and frequencies (the entry of
\* position p turns by p times each frequency), or the error raised.
precompute_freqs_cis(seq_len, base, scaling_factor, low_freq_factor, high_freq_factor, original_max_position_embeddings) ==
  LET freqs == InvFreq(base)
      r == IF low_freq_factor # Unset /\ high_freq_factor # Unset
           THEN compute_llama3_parameters(freqs, original_max_position_embeddings,
                    scaling_factor, low_freq_factor, high_freq_factor)
           ELSE [ok |-> TRUE,
                 freqs |-> [i \in DOMAIN freqs |-> Times(freqs[i], 1, scaling_factor)]]
  IN  IF r.ok THEN [ok |-> TRUE, seq_len |-> seq_len, freqs |-> r.freqs] ELSE r

\* The call of precompute_freqs_cis in setup_caches: the long-context
\* arguments are passed when high_freq_factor and low_freq_factor are set.
SetupFreqs(cfg) ==
  IF cfg.high_freq_factor # Unset /\ cfg.low_freq_factor # Unset
  THEN precompute_freqs_cis(cfg.block_size, cfg.rope_base, cfg.scaling_factor,
           cfg.low_freq_factor, cfg.high_freq_factor,
           cfg.original_max_position_embeddings)
  ELSE precompute_freqs_cis(cfg.block_size, cfg.rope_base, cfg.scaling_factor,
           Unset, Unset, Unset)

\* -------------------------------------------------------------------- state

VARIABLES
  max_batch_size,   \* Transformer.max_batch_size (-1 before setup_caches)
  max_seq_length,   \* Transformer.max_seq_length (-1 before setup_caches)
  freqs_cis,        \* Transformer.freqs_cis (None before setup_caches)
  streaming_freqs,  \* Transformer.streaming_freqs (unset before setup_caches)
  kv_cache,         \* layer -> that layer's attention.kv_cache (None before)
  appended,         \* tokens the caller has passed to draft_prefill so far
  ncalls,           \* draft_prefill calls made so far
  last,             \* the most recent call: its arguments and what it returned
  first,            \* the draft caches as the first draft_prefill call left them
  ran,              \* the (max_batch_size, max_seq_length) of the setup_caches calls made
  t_kv_cache,       \* target model: layer -> that layer's attention (None before)
  t_freqs_cis,      \* target model: Transformer.freqs_cis (None before setup_caches)
  t_appended,       \* target model: tokens passed to KVCache.update so far
  config,           \* Transformer.config, the ModelArgs the model was built from
  ranks,            \* tensor-parallel group: rank -> where its entry-point call stands
  pager             \* caller of the target model: page tables and free-page list

draft_vars == << max_batch_size, max_seq_length, freqs_cis, streaming_freqs,
                 kv_cache, appended, ncalls, first >>
target_vars == << t_kv_cache, t_freqs_cis, t_appended >>
vars == << draft_vars, last, ran, target_vars, config, ranks, pager >>

NoCall == [op |-> "none"]

\* No tensor-parallel group: process_group is None in every module.
Alone == ranks = << >> /\ pager = None

\* Transformer.__init__(config)
Constructed(cfg) ==
  /\ max_batch_size = -1
  /\ max_seq_length = -1
  /\ freqs_cis = None
  /\ streaming_freqs = << >>
  /\ kv_cache = [l \in Layers |-> None]
  /\ appended = 0
  /\ ncalls = 0
  /\ last = NoCall
  /\ first = None
  /\ ran = {}
  /\ t_kv_cache = [l \in Layers |-> None]
  /\ t_freqs_cis = None
  /\ t_appended = 0
  /\ config = cfg

\* The model built from the "68m" entry of the table.
Init == Constructed(ModelArgs("68m")) /\ Alone

\* The draft caches of every layer, as a snapshot.
DraftCaches(kvc) ==
  [l \in Layers |-> [k |-> kvc[l].draft_k_cache, v |-> kvc[l].draft_v_cache]]

\* Transformer.setup_caches(max_batch_size, max_seq_length, streaming_budget,
\* buffer) of the self-speculation model.
SetupCovered(B, S) == max_seq_length >= S /\ max_batch_size >= B

SetupCaches(B, S, sb, buf) ==
  /\ IF SetupCovered(B, S)
     THEN UNCHANGED << max_batch_size, max_seq_length, freqs_cis,
                       streaming_freqs, kv_cache >>
     ELSE /\ max_seq_length' = S
          /\ max_batch_size' = B
          /\ kv_cache' = [l \in Layers |-> KVCacheInit(B, S, sb, buf)]
          /\ IF SetupFreqs(config).ok
             THEN /\ freqs_cis' = SetupFreqs(config)
                  /\ streaming_freqs' = StreamingFreqs(B, sb)
             ELSE UNCHANGED << freqs_cis, streaming_freqs >>
  /\ last' = [op |-> "setup_caches", B |-> B, S |-> S, sb |-> sb, buf |-> buf,
              error |-> IF SetupCovered(B, S) \/ SetupFreqs(config).ok
                        THEN "none" ELSE SetupFreqs(config).error]
  /\ UNCHANGED << appended, ncalls, first, target_vars, config, ranks, pager >>

\* Transformer.draft_prefill(idx, input_pos, cache_seqlens, is_last) on a
\* chunk of n tokens per batch row: every layer in turn runs
\* Attention.draft_prefill with the same cache_seqlens and is_last.
DraftPrefill(cache_seqlens, n, is_last) ==
  /\ freqs_cis # None
  /\ LET B == max_batch_size
         step(l) == AttentionDraftPrefill(kv_cache[l], streaming_freqs,
                        cache_seqlens, NewKeys(l, B, appended, n),
                        NewVals(l, B, appended, n), is_last)
         after == [l \in Layers |-> step(l).cache]
     IN  /\ kv_cache' = after
         /\ last' = [ op |-> "draft_prefill", cache_seqlens |-> cache_seqlens,
                      n |-> n, is_last |-> is_last, len |-> step(1).len,
                      kernel |-> "custom_func_2", error |-> "none",
                      overflow |-> PrefillOverflows(kv_cache[1], cache_seqlens, n) ]
         /\ first' = IF ncalls = 0
                     THEN [n |-> n, caches |-> DraftCaches(after)]
                     ELSE first
  /\ appended' = appended + n
  /\ ncalls' = ncalls + 1
  /\ UNCHANGED << max_batch_size, max_seq_length, freqs_cis, streaming_freqs,
                  ran, target_vars, config, ranks, pager >>

\* The cursor a caller that tracks the cache passes: the tokens appended so
\* far, capped at the streaming budget, the same for every batch row.
Cursor == [b \in 1..max_batch_size |-> Min(appended, kv_cache[1].streaming_budget)]

\* ------------------------------------------------------------ specifications

\* The first setup_caches call, on the model as constructed.
SetupOnce ==
  /\ freqs_cis = None
  /\ \E sb \in Budgets, buf \in 0..MaxBuffer : SetupCaches(MaxBatch, MaxSeq, sb, buf)
  /\ UNCHANGED ran

\* KVCache.prefill appends: draft_prefill chunks that are not the last.
AppendChunk ==
  /\ freqs_cis # None
  /\ \E n \in ChunkLens :
        /\ appended + n <= MaxTotal
        /\ DraftPrefill(Cursor, n, FALSE)

NextAppend == SetupOnce \/ AppendChunk

SpecAppend == Init /\ [][NextAppend]_vars

\* The draft pipeline: draft_prefill chunks, any of them flagged as the last.
DraftChunk ==
  /\ freqs_cis # None
  /\ ncalls < MaxCalls
  /\ \E n \in DraftLens, is_last \in BOOLEAN :
        /\ appended + n <= MaxTotal
        /\ DraftPrefill(Cursor, n, is_last)

NextDraft == SetupOnce \/ DraftChunk

SpecDraft == Init /\ [][NextDraft]_vars

\* A batch whose rows are at different cursors: cache_seqlens is any vector
\* of cursors within the budget.
Cursors == {0, 2, SinkLen + 1}
RaggedLens == {2, MaxWindow}

RaggedChunk ==
  /\ freqs_cis # None
  /\ ncalls < MaxCalls
  /\ \E cache_seqlens \in [1..max_batch_size -> Cursors], n \in RaggedLens :
        DraftPrefill(cache_seqlens, n, FALSE)

NextBatch == SetupOnce \/ RaggedChunk

SpecBatch == Init /\ [][NextBatch]_vars

\* setup_caches called again and again, with draft_prefill chunks between.
SetupAgain ==
  /\ \E B \in {1, MaxBatch}, S \in {1, MaxSeq}, sb \in Budgets, buf \in {0, MaxBuffer} :
        /\ SetupCaches(B, S, sb, buf)
        /\ ran' = ran \cup {<< B, S >>}

SmallChunk ==
  /\ freqs_cis # None
  /\ ncalls < MaxCalls
  /\ DraftPrefill(Cursor, 2, FALSE)

NextSetup == SetupAgain \/ SmallChunk

SpecSetup == Init /\ [][NextSetup]_vars

\* ------------------------------------------------------------- target model

\* KVCache.__init__ of Engine/model.py: cache_shape (max_num_pages, 2,
\* page_size, ...) of zeros; page p holds page_size keys and page_size values.
PagedCacheInit(num_pages, page_size) ==
  [p \in 1..num_pages |-> [ k |-> [i \in 1..page_size |-> ZeroK],
                            v |-> [i \in 1..page_size |-> ZeroV] ]]

\* The update_kv kernel behind KVCache.update, for one sequence whose page
\* table is `pages` with `lastlen` entries in its last page after the
\* append: the n new entries are the last n positions of the sequence.
UpdateKV(pool, k, v, pages, lastlen) ==
  LET ps    == Len(pool[1].k)
      n     == Len(k)
      total == (Len(pages) - 1) * ps + lastlen
      pos(j) == total - n + j - 1
      hits(p, i) == {j \in 1..n : pages[(pos(j) \div ps) + 1] = p /\ (pos(j) % ps) + 1 = i}
  IN  [p \in DOMAIN pool |->
         [ k |-> [i \in 1..ps |-> IF hits(p, i) = {} THEN pool[p].k[i]
                                  ELSE k[CHOOSE j \in hits(p, i) : TRUE]],
           v |-> [i \in 1..ps |-> IF hits(p, i) = {} THEN pool[p].v[i]
                                  ELSE v[CHOOSE j \in hits(p, i) : TRUE]] ]]

\* Transformer.setup_caches(num_pages, page_size) of the target model.
TargetSetupCaches(num_pages, page_size) ==
  /\ t_kv_cache' = [l \in Layers |->
                      [ kv_cache     |-> PagedCacheInit(num_pages, page_size),
                        attn_decode  |-> "target_decode",
                        attn_prefill |-> "target_prefill" ]]
  /\ t_freqs_cis' = IF SetupFreqs(config).ok THEN SetupFreqs(config) ELSE t_freqs_cis
  /\ last' = [op |-> "target_setup_caches", num_pages |-> num_pages,
              page_size |-> page_size,
              error |-> IF SetupFreqs(config).ok THEN "none" ELSE SetupFreqs(config).error]
  /\ UNCHANGED << draft_vars, ran, t_appended, config, ranks >>

\* Transformer.prefill / forward of the target model on n new tokens of one
\* sequence: every layer rotates its keys by their positions and appends
\* them, with the values, through KVCache.update.
TargetAppend(pages, lastlen, n) ==
  /\ t_freqs_cis # None
  /\ LET ps    == Len(t_kv_cache[1].kv_cache[1].k)
         total == (Len(pages) - 1) * ps + lastlen
         k(l)  == [j \in 1..n |-> Rotate(KeyOf(l, 1, t_appended + j), total - n + j - 1)]
         v(l)  == [j \in 1..n |-> ValOf(l, 1, t_appended + j)]
     IN  t_kv_cache' = [l \in Layers |->
            [t_kv_cache[l] EXCEPT !.kv_cache = UpdateKV(@, k(l), v(l), pages, lastlen)]]
  /\ t_appended' = t_appended + n
  /\ last' = [op |-> "target_append", pages |-> pages, lastlen |-> lastlen, n |-> n]
  /\ UNCHANGED << draft_vars, ran, t_freqs_cis, config, ranks, pager >>

\* The page tables a caller can pass: distinct pages of the pool.
PageLists(num_pages) ==
  {s \in UNION {[1..m -> 1..num_pages] : m \in 1..num_pages} :
     \A i, j \in DOMAIN s : i # j => s[i] # s[j]}

TargetSetup ==
  /\ \E num_pages \in 1..MaxPages, page_size \in 1..MaxPageSize :
        TargetSetupCaches(num_pages, page_size)
  /\ UNCHANGED pager

TargetStep ==
  /\ t_freqs_cis # None
  /\ LET pool == t_kv_cache[1].kv_cache
     IN  \E pages \in PageLists(Len(pool)), lastlen \in 1..Len(pool[1].k), n \in 1..2 :
            /\ n <= (Len(pages) - 1) * Len(pool[1].k) + lastlen
            /\ t_appended + n <= MaxTargetTokens
            /\ TargetAppend(pages, lastlen, n)

NextTarget == TargetSetup \/ TargetStep

SpecTarget == Init /\ [][NextTarget]_vars

\* ------------------------------------------------------ configuration by name

\* Transformer.from_name(name): a model built from ModelArgs.from_name(name).
\* The model is new, every other attribute as __init__ leaves it; a failed
\* resolution builds nothing.
FromName(name) ==
  /\ freqs_cis = None /\ t_freqs_cis = None
  /\ LET r == from_name(name)
     IN  /\ config' = IF r.ok THEN ModelArgs(r.key) ELSE config
         /\ last' = [op |-> "from_name", name |-> name, result |-> r]
  /\ UNCHANGED << draft_vars, ran, target_vars, ranks, pager >>

\* The pieces the names passed to from_name are made of: the keys of the
\* table, other capitalisations of them, and text that holds no key.
NameParts ==
  {ConfigKeys[i] : i \in DOMAIN ConfigKeys}
    \cup {"", "unknown-model-xyz", "Meta-", "-hf", "LLAMA-2-7B", "TinyLlama", "-32K", "-68M"}

\* Names of at most MaxParts pieces.
RECURSIVE NamesOf(_)
NamesOf(k) ==
  IF k = 0 THEN {""}
  ELSE {a \o b : a \in NamesOf(k - 1), b \in NameParts}

Names == NamesOf(MaxParts)

\* One resolution for each model built.
ResolveName == last = NoCall /\ \E name \in Names : FromName(name)

NextNames == ResolveName

SpecNames == Init /\ [][NextNames]_vars

\* ------------------------------------------------- long-context configuration

\* Configurations whose long-context fields are set or left None one by one.
LongContextConfigs ==
  { [ModelArgs("llama-3.1-8b") EXCEPT
        !.rope_base = base, !.scaling_factor = sf,
        !.low_freq_factor = low, !.high_freq_factor = high,
        !.original_max_position_embeddings = orig] :
      base \in 2..MaxBase, sf \in {1, MaxScale},
      low \in {Unset} \cup {<< f >> : f \in 1..MaxFactor},
      high \in {Unset} \cup {<< f >> : f \in 1..MaxFactor},
      orig \in {Unset} \cup {<< c >> : c \in 1..MaxContext} }

InitLongContext == Alone /\ \E cfg \in LongContextConfigs : Constructed(cfg)

\* The first setup_caches call of the self-speculation model.
LongSetup ==
  /\ last = NoCall
  /\ \E sb \in Budgets : SetupCaches(MaxBatch, MaxSeq, sb, 0)
  /\ UNCHANGED ran

\* The first setup_caches call of the target model.
LongTargetSetup ==
  /\ last = NoCall
  /\ TargetSetupCaches(1, 1)
  /\ UNCHANGED pager

NextLongContext == LongSetup \/ LongTargetSetup

SpecLongContext == InitLongContext /\ [][NextLongContext]_vars

\* -------------------------------------------------------------- entry points

\* Attention.__init__: the kernel stored in _attn, assigned nowhere else.
Attn(cfg) == IF cfg.n_head = cfg.n_local_heads THEN "custom_func" ELSE "gqa_custom"

\* The kernel each Attention method calls.
KernelOf(mode, cfg) ==
  CASE mode = "forward"       -> Attn(cfg)
    [] mode = "prefill"       -> "custom_func"
    [] mode = "draft_forward" -> Attn(cfg)
    [] mode = "draft_prefill" -> "custom_func_2"

\* The write of the attention kernels custom_func and gqa_custom into the
\* cache they are given: row b's new entries go to the slots from
\* cache_seqlens[b] on.
KernelAppend(rows, new, cache_seqlens) ==
  [b \in DOMAIN rows |->
     [i \in DOMAIN rows[b] |->
        IF cache_seqlens[b] < i /\ i <= cache_seqlens[b] + Len(new[b])
        THEN new[b][i - cache_seqlens[b]]
        ELSE rows[b][i]]]

\* The mistaken cache choice: forward and prefill hand the kernel the draft
\* caches as well (the call self.kv_cache.prefill_draft(cache_seqlens, k)
\* that Attention.prefill has commented out would do so for the keys).
AttentionCallIntoDraft(mode, kc, k, v, input_pos, cache_seqlens) ==
  LET rk == apply_rotary_emb(k, input_pos)
  IN  IF mode = "draft_forward"
      THEN [kc EXCEPT !.draft_k_cache = KernelAppend(@, rk, cache_seqlens),
                      !.draft_v_cache = KernelAppend(@, v, cache_seqlens)]
      ELSE [kc EXCEPT !.k_cache = KernelAppend(@, rk, cache_seqlens),
                      !.v_cache = KernelAppend(@, v, cache_seqlens),
                      !.draft_k_cache = KernelAppend(@, k, cache_seqlens),
                      !.draft_v_cache = KernelAppend(@, v, cache_seqlens)]

\* Attention.forward, Attention.prefill and Attention.draft_forward on the
\* keys k and values v of a chunk at positions input_pos: the keys are
\* rotated by freqs_cis[input_pos] and handed with the values to the kernel,
\* together with the full caches (forward, prefill) or the draft caches
\* (draft_forward).
AttentionCall(mode, kc, k, v, input_pos, cache_seqlens) ==
  LET rk == apply_rotary_emb(k, input_pos)
  IN  IF mode = "draft_forward"
      THEN [kc EXCEPT !.draft_k_cache = KernelAppend(@, rk, cache_seqlens),
                      !.draft_v_cache = KernelAppend(@, v, cache_seqlens)]
      ELSE [kc EXCEPT !.k_cache = KernelAppend(@, rk, cache_seqlens),
                      !.v_cache = KernelAppend(@, v, cache_seqlens)]

EntryModes == {"forward", "prefill", "draft_forward", "draft_prefill"}

\* The entry points without their assert: None[input_pos] raises a TypeError.
EntryFailsUnasserted(mode) ==
  /\ freqs_cis = None
  /\ last' = [op |-> mode, error |-> "TypeError"]
  /\ UNCHANGED << draft_vars, ran, target_vars, config, ranks, pager >>

\* An entry point called while freqs_cis is None: the assert at its head.
EntryFails(mode) ==
  /\ freqs_cis = None
  /\ last' = [op |-> mode, error |-> "Caches must be initialized first"]
  /\ UNCHANGED << draft_vars, ran, target_vars, config, ranks, pager >>

\* Transformer.forward, prefill and draft_forward on a chunk of n tokens per
\* batch row that follow the `done` tokens already processed: input_pos is
\* done .. done+n-1, and every layer in turn runs its Attention method.
EntryCall(mode, cache_seqlens, done, n) ==
  /\ freqs_cis # None
  /\ LET B == max_batch_size
         input_pos == [b \in 1..B |-> [j \in 1..n |-> done + j - 1]]
     IN  kv_cache' = [l \in Layers |->
            AttentionCall(mode, kv_cache[l], NewKeys(l, B, done, n),
                          NewVals(l, B, done, n), input_pos, cache_seqlens)]
  /\ appended' = IF mode = "draft_forward" THEN appended + n ELSE appended
  /\ last' = [op |-> mode, cache_seqlens |-> cache_seqlens, n |-> n,
              kernel |-> KernelOf(mode, config), error |-> "none"]
  /\ UNCHANGED << max_batch_size, max_seq_length, freqs_cis, streaming_freqs,
                  ncalls, first, ran, target_vars, config, ranks, pager >>

\* Models built from table entries: multi-head, grouped-query, and
\* grouped-query with the long-context fields.
EntryConfigs == {ModelArgs("68m"), ModelArgs("tinyllama"), ModelArgs("llama-3.1-8b")}

InitEntry == Alone /\ \E cfg \in EntryConfigs : Constructed(cfg)

EntryBeforeSetup == \E mode \in EntryModes : EntryFails(mode)

\* forward and prefill on the full cache, the cursor the tokens stored so far.
EntryFull ==
  /\ freqs_cis # None
  /\ \E mode \in {"forward", "prefill"}, n \in 1..MaxSeq :
        \E c \in 0..(max_seq_length - n) :
           EntryCall(mode, [b \in 1..max_batch_size |-> c], c, n)

\* draft_forward of one token on the streaming cache.
EntryDraftForward ==
  /\ freqs_cis # None
  /\ appended < MaxCalls
  /\ Cursor[1] + 1 <= Len(kv_cache[1].draft_k_cache[1])
  /\ EntryCall("draft_forward", Cursor, appended, 1)

NextEntry == SetupOnce \/ EntryBeforeSetup \/ EntryFull \/ EntryDraftForward \/ SmallChunk

SpecEntry == InitEntry /\ [][NextEntry]_vars

\* Draft and target calls of one model in any order: draft_prefill chunks,
\* any of them flagged as the last, draft_forward steps, and forward and
\* prefill on the full cache.
InterleavedDraftPrefill ==
  /\ freqs_cis # None
  /\ ncalls < MaxCalls
  /\ \E n \in {2, MaxWindow}, is_last \in BOOLEAN :
        /\ appended + n <= MaxDraftTokens
        /\ DraftPrefill(Cursor, n, is_last)

NextInterleaved ==
  SetupOnce \/ InterleavedDraftPrefill \/ EntryDraftForward \/ EntryFull

SpecInterleaved == Init /\ [][NextInterleaved]_vars

\* ---------------------------------------------------------- tensor parallel

\* Each rank of a group runs one entry point over the layers of its shard of
\* the model.  A rank's call stands at a layer and at one of
\*   "attention"    : Attention.<mode> up to y = self.wo(y)
\*   "attn_reduce"  : inside dist.all_reduce(y) of the attention
\*   "attn_add"     : h = x + self.attention...(...)
\*   "feed_forward" : FeedForward.<mode> up to y = self.w2(...)
\*   "ff_reduce"    : inside dist.all_reduce(y) of the feed-forward
\*   "ff_add"       : out = h + self.feed_forward...(...)
\*   "done"         : norm, output, return
\* and log lists the all-reduces it has entered and the residual adds it has
\* made.  The rank-local cache writes of the call play no part here.
Ranks == 1..MaxRanks

\* The all-reduces a rank has entered so far.
Reduces(r) == SelectSeq(ranks[r].log, LAMBDA e : e[1] = "all_reduce")

\* dist.all_reduce returns on a rank once every rank of the group has
\* entered the same collective, the collectives matched in issue order.
AllReduceDone(r) ==
  \A o \in Ranks : Len(Reduces(o)) >= Len(Reduces(r))

\* The feed-forward without its all-reduce.
AfterProjectionNoReduce(r, module) ==
  IF ranks[r].process_group /\ module = "attention"
  THEN [ranks[r] EXCEPT !.pc = "attn_reduce",
                        !.log = Append(@, << "all_reduce", module, ranks[r].layer >>)]
  ELSE [ranks[r] EXCEPT !.pc = IF module = "attention" THEN "attn_add" ELSE "ff_add"]

\* After wo (attention) or w2 (feed-forward): if self.process_group != None:
\* dist.all_reduce(y).
AfterProjection(r, module) ==
  IF ranks[r].process_group
  THEN [ranks[r] EXCEPT !.pc = IF module = "attention" THEN "attn_reduce" ELSE "ff_reduce",
                        !.log = Append(@, << "all_reduce", module, ranks[r].layer >>)]
  ELSE [ranks[r] EXCEPT !.pc = IF module = "attention" THEN "attn_add" ELSE "ff_add"]

\* One step of rank r's call.
RankStep(r) ==
  /\ ranks[r].pc # "done"
  /\ LET me == ranks[r]
         next ==
           CASE me.pc = "attention"    -> AfterProjection(r, "attention")
             [] me.pc = "attn_reduce"  -> [me EXCEPT !.pc = "attn_add"]
             [] me.pc = "attn_add"     ->
                  [me EXCEPT !.pc = "feed_forward",
                             !.log = Append(@, << "add", "attention", me.layer >>)]
             [] me.pc = "feed_forward" -> AfterProjection(r, "feed_forward")
             [] me.pc = "ff_reduce"    -> [me EXCEPT !.pc = "ff_add"]
             [] me.pc = "ff_add"       ->
                  [me EXCEPT !.pc = IF me.layer = n_layer THEN "done" ELSE "attention",
                             !.layer = IF me.layer = n_layer THEN me.layer ELSE me.layer + 1,
                             !.log = Append(@, << "add", "feed_forward", me.layer >>)]
     IN  /\ me.pc \in {"attn_reduce", "ff_reduce"} => AllReduceDone(r)
         /\ ranks' = [ranks EXCEPT ![r] = next]
  /\ UNCHANGED << draft_vars, last, ran, target_vars, config, pager >>

\* Every rank starts the same entry point; process_group is set on a rank's
\* modules or left None.
InitTP ==
  /\ Constructed(ModelArgs("68m"))
  /\ pager = None
  /\ \E mode \in EntryModes, pg \in [Ranks -> BOOLEAN] :
        ranks = [r \in Ranks |-> [mode |-> mode, process_group |-> pg[r],
                                  layer |-> 1, pc |-> "attention", log |-> << >>]]

NextTP == \E r \in Ranks : RankStep(r)

SpecTP == InitTP /\ [][NextTP]_vars

\* Every rank keeps running: each is its own process.
SpecTPFair == SpecTP /\ \A r \in Ranks : WF_vars(RankStep(r))

\* -------------------------------------------------------------- paged cache

\* The caller of the target model keeps, per live sequence, its page table
\* (the ordered pages and the fill of the last one) and the list of free
\* pages.  A sequence takes pages from the head of the free list as its last
\* page fills; a terminated sequence returns its pages to the list.
Ceil(a, b) == (a + b - 1) \div b

\* Entries a page table holds.
Occupancy(t, page_size) ==
  IF Len(t.pages) = 0 THEN 0 ELSE (Len(t.pages) - 1) * page_size + t.lastlen

EmptyTable == [pages |-> << >>, lastlen |-> 0]

TableOf(pg, s) == IF s \in DOMAIN pg.tables THEN pg.tables[s] ELSE EmptyTable

\* Pages a sequence with table t needs beyond its own to hold n more entries.
PagesNeeded(t, n, page_size) ==
  Ceil(Occupancy(t, page_size) + n, page_size) - Len(t.pages)

\* The page table after n entries were appended with the pages `more`.
Grown(t, n, more, page_size) ==
  [pages   |-> t.pages \o more,
   lastlen |-> ((Occupancy(t, page_size) + n - 1) % page_size) + 1]

\* An update that writes nothing.
KVCacheUpdateNone(pool, k, v, pages, lastlen) == pool

\* KVCache.update(k, v, kv_append_indptr, kv_page_indices, kv_page_indptr,
\* kv_page_lastlen) for one sequence of the batch.
KVCacheUpdate(pool, k, v, pages, lastlen) == UpdateKV(pool, k, v, pages, lastlen)

\* The sequences of a batch in the order of their ids, and the pages each
\* takes from the free list.
RECURSIVE SeqOf(_)
SeqOf(S) ==
  IF S = {} THEN << >>
  ELSE LET m == CHOOSE x \in S : \A y \in S : x <= y
       IN  << m >> \o SeqOf(S \ {m})

RECURSIVE NeededBefore(_, _, _, _)
NeededBefore(pg, ids, n, page_size) ==
  IF Len(ids) = 0 THEN 0
  ELSE PagesNeeded(TableOf(pg, Head(ids)), n, page_size)
         + NeededBefore(pg, Tail(ids), n, page_size)

TakenBy(pg, batch, s, n, page_size) ==
  LET before == NeededBefore(pg, SeqOf({o \in batch : o < s}), n, page_size)
      need   == PagesNeeded(TableOf(pg, s), n, page_size)
  IN  SubSeq(pg.free, before + 1, before + need)

\* The first setup_caches of the target model, every page free.
PagedSetup ==
  /\ t_freqs_cis = None /\ pager = None
  /\ \E page_size \in {1, MaxPageSize} : TargetSetupCaches(MaxPages, page_size)
  /\ pager' = [tables |-> << >>, free |-> [i \in 1..MaxPages |-> i]]

\* Transformer.prefill / forward of the target model on n new tokens for
\* each sequence of a batch: the caller extends the page tables, every
\* layer rotates its keys by their positions and appends them.
PagedAppend(batch, n) ==
  /\ t_freqs_cis # None /\ pager # None
  /\ LET ps == Len(t_kv_cache[1].kv_cache[1].k)
         ids == SeqOf(batch)
         table(s) == Grown(TableOf(pager, s), n, TakenBy(pager, batch, s, n, ps), ps)
         k(l, s) == [j \in 1..n |->
                       Rotate(KeyOf(l, s, Occupancy(TableOf(pager, s), ps) + j),
                              Occupancy(TableOf(pager, s), ps) + j - 1)]
         v(l, s) == [j \in 1..n |-> ValOf(l, s, Occupancy(TableOf(pager, s), ps) + j)]
         RECURSIVE all(_, _, _)
         all(pool, l, i) ==
           IF i > Len(ids) THEN pool
           ELSE all(KVCacheUpdate(pool, k(l, ids[i]), v(l, ids[i]),
                                  table(ids[i]).pages, table(ids[i]).lastlen), l, i + 1)
         taken == NeededBefore(pager, ids, n, ps)
     IN  /\ taken <= Len(pager.free)
         /\ t_kv_cache' = [l \in Layers |->
               [t_kv_cache[l] EXCEPT !.kv_cache = all(@, l, 1)]]
         /\ pager' = [tables |-> [s \in DOMAIN pager.tables \cup batch |->
                                    IF s \in batch THEN table(s) ELSE pager.tables[s]],
                      free   |-> SubSeq(pager.free, taken + 1, Len(pager.free))]
         /\ last' = [op |-> "paged_append", batch |-> batch, n |-> n, error |-> "none"]
  /\ t_appended' = t_appended + n * Cardinality(batch)
  /\ UNCHANGED << draft_vars, ran, t_freqs_cis, config, ranks >>

\* A sequence ends: its pages go back to the free list.
Terminate(s) ==
  /\ pager # None
  /\ s \in DOMAIN pager.tables
  /\ pager' = [tables |-> [o \in DOMAIN pager.tables \ {s} |-> pager.tables[o]],
               free   |-> pager.free \o pager.tables[s].pages]
  /\ last' = [op |-> "terminate", seq |-> s, error |-> "none"]
  /\ UNCHANGED << draft_vars, ran, target_vars, config, ranks >>

PagedStep ==
  /\ t_appended < MaxPagedTokens
  /\ \E batch \in SUBSET (1..MaxBatch) \ {{}}, n \in {1, MaxTargetTokens} : PagedAppend(batch, n)

PagedEnd == pager # None /\ \E s \in 1..MaxBatch : Terminate(s)

NextPaged == PagedSetup \/ PagedStep \/ PagedEnd

SpecPaged == Init /\ [][NextPaged]_vars

\* ------------------------------------------------------------------- claims

\* The streaming budget of the caches in place.
SB == kv_cache[1].streaming_budget
Rows == 1..max_batch_size
DraftK(l, b) == kv_cache[l].draft_k_cache[b]
DraftV(l, b) == kv_cache[l].draft_v_cache[b]
Appending == ncalls >= 1 /\ last.op = "draft_prefill"

\* Slots [0, m) of every layer's and row's draft caches are as the first
\* call left them.
SameAsFirst(m) ==
  \A l \in Layers, b \in Rows, i \in 1..m :
     /\ DraftK(l, b)[i] = first.caches[l].k[b][i]
     /\ DraftV(l, b)[i] = first.caches[l].v[b][i]

\* C1, as stated: once the appends total more than streaming_budget, slots
\* [0, 16) of the draft caches equal their contents right after the first
\* prefill call.
C1_SinkAsAfterFirstCall ==
  (Appending /\ appended > SB) => SameAsFirst(SinkLen)

\* C1, amended: after every later append, the sink slots [0, min(16, n1)),
\* n1 the length of the first chunk, equal their contents right after the
\* first prefill call (the rest of the sink is filled by the appends that
\* follow a first chunk shorter than 16).
C1_WrittenSinkKept ==
  Appending => SameAsFirst(Min(SinkLen, first.n))

\* C1's case: a short first chunk, later appends, the last one overflowing.
C1_Witness ==
  /\ Appending /\ ncalls >= 3 /\ appended > SB /\ last.overflow
  /\ first.n = 2
  /\ ~SameAsFirst(SinkLen)

\* C2, as stated: once the appends total T > streaming_budget, slots
\* [16, streaming_budget) hold, in order, the most recent streaming_budget-16
\* tokens appended.
C2_TailIsMostRecent ==
  (Appending /\ appended > SB) =>
     \A l \in Layers, b \in Rows, i \in (SinkLen + 1)..SB :
        /\ DraftK(l, b)[i] = KeyOf(l, b, appended - SB + i)
        /\ DraftV(l, b)[i] = ValOf(l, b, appended - SB + i)

\* C3: while the appends total L <= streaming_budget, every call takes the
\* non-overflow branch and returns the prefix [0, L), and slot i holds the
\* i-th token appended, keys and values alike.
C3_NoLossBelowBudget ==
  (Appending /\ appended <= SB) =>
     /\ ~last.overflow
     /\ last.len = appended
     /\ \A l \in Layers, b \in Rows, i \in 1..appended :
           /\ DraftK(l, b)[i] = KeyOf(l, b, i)
           /\ DraftV(l, b)[i] = ValOf(l, b, i)

\* C3's case: several chunks that fill the budget exactly.
C3_Witness == Appending /\ ncalls >= 2 /\ appended = SB /\ last.n >= 2

\* What the overflow step makes of one row: old is the row before, val the
\* n new entries, new the row after.
OverflowStepOf(old, val, new, sb) ==
  LET n == Len(val)
      R == sb - SinkLen
  IN  \A i \in 1..Len(old) :
         IF i <= SinkLen \/ i > sb THEN new[i] = old[i]
         ELSE IF i - SinkLen <= R - n THEN new[i] = old[i + n]
         ELSE new[i] = val[n - (sb - i)]

\* C4: a call with cache_len + new_len > streaming_budget drops the oldest
\* new_len slots of [16, streaming_budget), shifts the rest left, puts the
\* new entries (their last streaming_budget-16 when there are more) at the
\* tail, leaves [0, 16) and the slots from streaming_budget on unchanged, and
\* returns a view of streaming_budget slots.
C4_OverflowStep ==
  [][ (ncalls' = ncalls + 1 /\ last'.overflow) =>
        /\ last'.len = SB
        /\ \A l \in Layers, b \in Rows :
              /\ OverflowStepOf(DraftK(l, b), NewKeys(l, max_batch_size, appended, last'.n)[b],
                                kv_cache'[l].draft_k_cache[b], SB)
              /\ OverflowStepOf(DraftV(l, b), NewVals(l, max_batch_size, appended, last'.n)[b],
                                kv_cache'[l].draft_v_cache[b], SB) ]_vars

\* C4's case: an overflow that keeps part of the old sliding region, in a
\* cache with slots beyond the budget.
C4_Witness ==
  /\ Appending /\ last.overflow /\ last.n < SB - SinkLen
  /\ Len(DraftK(1, 1)) > SB
  /\ DraftK(1, 1)[SinkLen + 1] # ZeroK

\* C7, as stated: once at least 16 tokens are appended, slots [0, 16) hold
\* the first 16 tokens appended.
C7_SinkIsPrefix ==
  (Appending /\ appended >= SinkLen) =>
     \A l \in Layers, b \in Rows, i \in 1..SinkLen :
        /\ DraftK(l, b)[i] = KeyOf(l, b, i)
        /\ DraftV(l, b)[i] = ValOf(l, b, i)

\* The first draft_prefill call wrote all of slots [0, 16).
FirstWroteSink ==
  \A l \in Layers, b \in Rows, i \in 1..SinkLen :
     first.caches[l].k[b][i] # ZeroK /\ first.caches[l].v[b][i] # ZeroV

\* C5, as stated: once the first draft_prefill call has written slots
\* [0, 16) of the draft key and value caches, no later draft_prefill call,
\* whatever its is_last, changes them.
C5_SinkWriteOnce ==
  (Appending /\ FirstWroteSink) => SameAsFirst(SinkLen)

\* C5, amended: once the first draft_prefill call has written slots [0, 16),
\* no later call changes the value slots of the sink, a later call with
\* is_last=False leaves its key slots unchanged, and a later call with
\* is_last=True turns key slot i by the rotation of position i and changes
\* nothing else of it.
C5_SinkKeptUpToSnapshot ==
  [][ (ncalls >= 1 /\ ncalls' = ncalls + 1 /\ FirstWroteSink) =>
        \A l \in Layers, b \in Rows, i \in 1..SinkLen :
           /\ kv_cache'[l].draft_v_cache[b][i] = DraftV(l, b)[i]
           /\ kv_cache'[l].draft_k_cache[b][i] =
                 IF last'.is_last THEN Rotate(DraftK(l, b)[i], i - 1)
                 ELSE DraftK(l, b)[i] ]_vars

\* C5's case: the first call filled the sink, a later overflowing call
\* took the snapshot.
C5_Witness ==
  /\ Appending /\ ncalls >= 2 /\ FirstWroteSink
  /\ last.is_last /\ last.overflow
  /\ DraftK(1, 1)[SinkLen] = Rotate(KeyOf(1, 1, SinkLen), SinkLen - 1)

\* C8: a draft_prefill call with is_last=False leaves in the draft caches
\* what the append left (the new keys unrotated); with is_last=True key
\* slots [0, L) are the appended cache's keys turned by their slot index,
\* L the length of the view the append returned, and the key slots from L on
\* and the whole value cache are as the append left them.
C8_FinalChunkSnapshot ==
  [][ (ncalls' = ncalls + 1) =>
        \A l \in Layers :
           LET B  == max_batch_size
               ap == KVCachePrefill(kv_cache[l], last'.cache_seqlens,
                        NewKeys(l, B, appended, last'.n),
                        NewVals(l, B, appended, last'.n))
               L  == ap.len
           IN  /\ last'.len = L
               /\ kv_cache'[l].draft_v_cache = ap.cache.draft_v_cache
               /\ kv_cache'[l].k_cache = kv_cache[l].k_cache
               /\ kv_cache'[l].v_cache = kv_cache[l].v_cache
               /\ \A b \in Rows : \A i \in 1..Len(DraftK(l, b)) :
                     kv_cache'[l].draft_k_cache[b][i] =
                        IF last'.is_last /\ i <= L
                        THEN Rotate(ap.cache.draft_k_cache[b][i], i - 1)
                        ELSE ap.cache.draft_k_cache[b][i]
               /\ ~last'.is_last =>
                     \A b \in Rows, j \in 1..Min(last'.n, SB - SinkLen) :
                        LET e == kv_cache'[l].draft_k_cache[b][L + 1 - j]
                        IN  e = KeyOf(l, b, appended + last'.n + 1 - j) ]_vars

\* C8's case: a final chunk after earlier chunks, shorter than the cache.
C8_Witness ==
  /\ Appending /\ ncalls >= 2 /\ last.is_last /\ ~last.overflow
  /\ last.len < SB
  /\ DraftK(1, 1)[last.len] = Rotate(KeyOf(1, 1, appended), last.len - 1)
  /\ DraftK(1, 1)[last.len + 1] = ZeroK

\* C6, as stated: row b's new entries are written from that row's own cursor
\* cache_seqlens[b], and the row overflows when its own cursor plus the chunk
\* exceeds the budget (the new entries then end the sliding region).
C6_PerRowCursor ==
  Appending =>
     \A l \in Layers, b \in Rows :
        LET c == last.cache_seqlens[b]
            n == last.n
        IN  IF c + n <= SB
            THEN \A j \in 1..n :
                    DraftK(l, b)[c + j] = KeyOf(l, b, appended - n + j)
                    /\ DraftV(l, b)[c + j] = ValOf(l, b, appended - n + j)
            ELSE \A j \in 1..Min(n, SB - SinkLen) :
                    DraftK(l, b)[SB + 1 - j] = KeyOf(l, b, appended + 1 - j)
                    /\ DraftV(l, b)[SB + 1 - j] = ValOf(l, b, appended + 1 - j)

\* The draft state setup_caches is said to leave alone.
SetupState == << max_batch_size, max_seq_length, freqs_cis, streaming_freqs, kv_cache >>

\* C9, as stated: once setup_caches has run with (B0, S0), any later call
\* with max_batch_size <= B0 and max_seq_length <= S0 leaves the caches and
\* their contents, freqs_cis, streaming_freqs and the recorded sizes unchanged.
C9_CoveredSetupIsNoOp ==
  [][ ( /\ last'.op = "setup_caches"
        /\ \E p \in ran : last'.B <= p[1] /\ last'.S <= p[2] )
      => UNCHANGED SetupState ]_vars

\* C10, as stated: a target setup_caches call with num_pages and page_size
\* no larger than those of the pool in place leaves every layer's pool and
\* its contents unchanged.
C10_TargetSetupIsNoOp ==
  [][ ( /\ last'.op = "target_setup_caches"
        /\ t_freqs_cis # None
        /\ last'.num_pages <= Len(t_kv_cache[1].kv_cache)
        /\ last'.page_size <= Len(t_kv_cache[1].kv_cache[1].k) )
      => t_kv_cache' = t_kv_cache ]_vars

\* The keys that, case-insensitively, occur in the name.
KeysIn(name) ==
  {ConfigKeys[i] : i \in {j \in DOMAIN ConfigKeys : IsIn(lower(ConfigKeys[j]), lower(name))}}

\* C11: from_name(name) returns the entry of name when name is a key of the
\* table; otherwise, M being the keys that are case-insensitive substrings
\* of name, it returns the entry of the key of M strictly longer than every
\* other key of M when there is one, and fails, returning no configuration,
\* when M is empty or its two longest keys have one length.
C11_FromName ==
  last.op = "from_name" =>
    LET name == last.name
        r    == last.result
        M    == KeysIn(name)
        best == {k \in M : \A o \in M \ {k} : Len(o) < Len(k)}
    IN  IF name \in {ConfigKeys[i] : i \in DOMAIN ConfigKeys}
        THEN r.ok /\ r.key = name /\ config = ModelArgs(name)
        ELSE IF best # {}
        THEN r.ok /\ r.key \in best /\ config = ModelArgs(r.key)
        ELSE ~r.ok /\ "key" \notin DOMAIN r

\* C11's case: a name that is no key and holds two keys, resolved to the
\* longer of them, which is not the first of them in the table.
C11_Witness ==
  /\ last.op = "from_name"
  /\ last.name = "Meta-llama-2-7b-32k"
  /\ last.result.ok /\ last.result.key = "llama-2-7b-32k"
  /\ config.scaling_factor = 8

\* Some but not all of the three long-context fields are set.
PartialLongContext ==
  LET set == {f \in {config.low_freq_factor, config.high_freq_factor,
                     config.original_max_position_embeddings} : f # Unset}
      n   == (IF config.low_freq_factor # Unset THEN 1 ELSE 0)
             + (IF config.high_freq_factor # Unset THEN 1 ELSE 0)
             + (IF config.original_max_position_embeddings # Unset THEN 1 ELSE 0)
  IN  set # {} /\ n < 3

\* All three long-context fields are set.
FullLongContext ==
  /\ config.low_freq_factor # Unset
  /\ config.high_freq_factor # Unset
  /\ config.original_max_position_embeddings # Unset

\* C12, as stated: with some but not all of the long-context fields set,
\* setup_caches fails with an error and produces no frequency table.
C12_PartialConfigRejected ==
  (last.op \in {"setup_caches", "target_setup_caches"} /\ PartialLongContext) =>
     /\ last.error # "none"
     /\ freqs_cis = None /\ t_freqs_cis = None

\* C13, as stated: with the three fields set and low_freq_factor equal to
\* high_freq_factor, building the frequency table fails, whatever the base
\* frequencies.
C13_DegenerateFactorsRejected ==
  ( /\ last.op \in {"setup_caches", "target_setup_caches"}
    /\ FullLongContext
    /\ config.low_freq_factor = config.high_freq_factor ) =>
     /\ last.error # "none"
     /\ freqs_cis = None /\ t_freqs_cis = None

\* The frequency table a setup_caches call built.
BuiltTable == IF last.op = "setup_caches" THEN freqs_cis ELSE t_freqs_cis

Unchanged(f) == f.num = 1 /\ f.den = 1
Scaled(f) == f.num * config.scaling_factor = f.den
\* (1 - smooth) * freq / scaling_factor + smooth * freq with
\* smooth = (old / wavelen - low) / (high - low)
Blended(f) ==
  LET old  == config.original_max_position_embeddings[1]
      low  == config.low_freq_factor[1]
      high == config.high_freq_factor[1]
      sf   == config.scaling_factor
      a    == old - low * f.w
      b    == f.w * (high - low)
  IN  b # 0 /\ f.num * (b * sf) = f.den * ((b - a) + a * sf)

\* wavelen < high_wavelen and wavelen > low_wavelen, for positive factors.
BelowHigh(f) == f.w * config.high_freq_factor[1] < config.original_max_position_embeddings[1]
AboveLow(f) == f.w * config.low_freq_factor[1] > config.original_max_position_embeddings[1]

\* C14, as stated: in a table built with the three fields set, every
\* frequency of wavelength < high_wavelen is unchanged, every frequency of
\* wavelength > low_wavelen is divided by scaling_factor, and the others are
\* blended, also when low_freq_factor > high_freq_factor.
C14_ThreeWay ==
  ( /\ last.op \in {"setup_caches", "target_setup_caches"}
    /\ FullLongContext /\ last.error = "none" ) =>
     \A i \in DOMAIN BuiltTable.freqs :
        LET f == BuiltTable.freqs[i]
        IN  /\ BelowHigh(f) => Unchanged(f)
            /\ AboveLow(f) => Scaled(f)
            /\ (~BelowHigh(f) /\ ~AboveLow(f)) => Blended(f)

\* C14, amended: in a table built with the three fields set, every
\* frequency of wavelength < high_wavelen is unchanged; every frequency of
\* wavelength > low_wavelen that is not of wavelength < high_wavelen is
\* divided by scaling_factor; the others are blended.
C14_HighTestFirst ==
  ( /\ last.op \in {"setup_caches", "target_setup_caches"}
    /\ FullLongContext /\ last.error = "none" ) =>
     \A i \in DOMAIN BuiltTable.freqs :
        LET f == BuiltTable.freqs[i]
        IN  /\ BelowHigh(f) => Unchanged(f)
            /\ (AboveLow(f) /\ ~BelowHigh(f)) => Scaled(f)
            /\ (~BelowHigh(f) /\ ~AboveLow(f)) => Blended(f)

\* C14's case: low_freq_factor > high_freq_factor, scaling_factor not 1, and
\* a table with a frequency whose wavelength is on both sides, left unchanged.
C14_Witness ==
  /\ last.op = "setup_caches" /\ FullLongContext /\ last.error = "none"
  /\ config.low_freq_factor[1] > config.high_freq_factor[1]
  /\ config.scaling_factor > 1
  /\ \E i \in DOMAIN freqs_cis.freqs :
        LET f == freqs_cis.freqs[i]
        IN  BelowHigh(f) /\ AboveLow(f) /\ Unchanged(f)
  /\ \E i \in DOMAIN freqs_cis.freqs : ~BelowHigh(freqs_cis.freqs[i])

\* C15, as stated: in every entry point the kernel invoked is gqa_custom
\* exactly when n_head # n_local_heads and custom_func exactly when
\* n_head = n_local_heads.
C15_KernelByHeads ==
  (last.op \in EntryModes /\ last.error = "none") =>
     /\ (config.n_head # config.n_local_heads) <=> (last.kernel = "gqa_custom")
     /\ (config.n_head = config.n_local_heads) <=> (last.kernel = "custom_func")

\* The state an entry point must leave alone when it fails.
ModelState == << draft_vars, target_vars, config, ranks, pager >>

\* C18: an entry point called before any setup_caches fails with "Caches
\* must be initialized first" and changes nothing; once setup_caches has
\* succeeded no entry point fails on that assertion.
C18_EntryNeedsSetup ==
  [][ /\ (last'.op \in EntryModes /\ max_batch_size = -1) =>
           /\ last'.error = "Caches must be initialized first"
           /\ UNCHANGED ModelState
      /\ (last'.op \in EntryModes /\ max_batch_size # -1) =>
           last'.error = "none" ]_vars

\* C18's case: draft_prefill called on a model whose caches were never set
\* up, refused with the assertion.
C18_Witness ==
  /\ last.op = "draft_prefill"
  /\ last.error = "Caches must be initialized first"
  /\ max_batch_size = -1 /\ freqs_cis = None
  /\ config.key = "tinyllama"

\* process_group is set on every rank of the group.
GroupSet == \A r \in Ranks : ranks[r].process_group

\* The all-reduces and residual adds of a whole call, in order.
RECURSIVE CallLog(_)
CallLog(l) ==
  IF l = 0 THEN << >>
  ELSE CallLog(l - 1) \o << << "all_reduce", "attention", l >>, << "add", "attention", l >>,
                            << "all_reduce", "feed_forward", l >>, << "add", "feed_forward", l >> >>

IsPrefix(a, b) == Len(a) <= Len(b) /\ SubSeq(b, 1, Len(a)) = a

\* C16: with process_group set on every rank, each rank enters its
\* all-reduces in the order attention, feed-forward, layer by layer, each
\* before the residual add it feeds, 2 * n_layer of them by the end of the
\* call; and every rank's call completes.
C16_Barriers ==
  /\ [](GroupSet =>
          \A r \in Ranks :
             /\ IsPrefix(ranks[r].log, CallLog(n_layer))
             /\ ranks[r].pc = "done" => Len(Reduces(r)) = 2 * n_layer)
  /\ (GroupSet => <>(\A r \in Ranks : ranks[r].pc = "done"))

\* C16's case: a group with process_group set everywhere whose ranks have
\* all completed their call.
C16_Witness ==
  /\ DOMAIN ranks = Ranks /\ GroupSet
  /\ \A r \in Ranks : ranks[r].pc = "done" /\ Len(Reduces(r)) = 2 * n_layer

PageSize == Len(t_kv_cache[1].kv_cache[1].k)

\* Pages added to the table of sequence s by the step.
AddedPages(s) == Len(pager'.tables[s].pages) - Len(TableOf(pager, s).pages)

\* Every page of the pool is on the free list or in one page table, once.
NoPageLost ==
  pager # None =>
    LET held == [s \in DOMAIN pager.tables |-> pager.tables[s].pages]
        count(p) == Cardinality({i \in DOMAIN pager.free : pager.free[i] = p})
                    + Cardinality({x \in {<< s, i >> : s \in DOMAIN held, i \in DOMAIN t_kv_cache[1].kv_cache} :
                                      x[2] \in DOMAIN held[x[1]] /\ held[x[1]][x[2]] = p})
    IN  \A p \in DOMAIN t_kv_cache[1].kv_cache : count(p) = 1

C19_RotatedAtMostOnce ==
  Appending =>
     \A l \in Layers, b \in Rows :
        \A i \in 1..Len(DraftK(l, b)) : DraftK(l, b)[i].rot <= 1

\* C20, as stated: whenever a call setup_caches(max_batch_size,
\* max_seq_length, streaming_budget, buffer) returns, the first or a repeated
\* one, every layer's draft caches have streaming_budget + buffer slots,
\* KVCache.streaming_budget is the requested streaming_budget, and
\* streaming_freqs covers exactly streaming_budget positions.
C20_RequestedCapacity ==
  (last.op = "setup_caches" /\ last.error = "none") =>
     /\ \A l \in Layers :
           /\ Len(kv_cache[l].draft_k_cache[1]) = last.sb + last.buf
           /\ Len(kv_cache[l].draft_v_cache[1]) = last.sb + last.buf
           /\ kv_cache[l].streaming_budget = last.sb
     /\ Len(streaming_freqs[1]) = last.sb

\* C21, as stated: across any sequence of setup_caches calls the recorded
\* max_batch_size and max_seq_length, and the shape of the caches allocated
\* from them, never decrease, so a request that was once covered stays
\* covered.
C21_CapacityNeverShrinks ==
  [][ /\ max_batch_size' >= max_batch_size
      /\ max_seq_length' >= max_seq_length
      /\ (freqs_cis # None) =>
            \A l \in Layers :
               /\ Len(kv_cache'[l].k_cache) >= Len(kv_cache[l].k_cache)
               /\ Len(kv_cache'[l].k_cache[1]) >= Len(kv_cache[l].k_cache[1])
      /\ \A B \in 1..MaxBatch, S \in 1..MaxSeq :
            SetupCovered(B, S) => SetupCovered(B, S)' ]_vars

\* The full caches and the draft caches of every layer.
FullCaches(kvc) == [l \in Layers |-> << kvc[l].k_cache, kvc[l].v_cache >>]

\* C22: a draft_prefill call, whatever its is_last, changes persistent state
\* in the draft caches only (the full caches k_cache and v_cache, freqs_cis,
\* streaming_freqs and the recorded sizes stay as they are), and a forward
\* or prefill call leaves draft_k_cache and draft_v_cache as they are, in
\* whatever order draft and target calls are made.
C22_DraftTargetIndependent ==
  [][ /\ (ncalls' = ncalls + 1) =>
            /\ FullCaches(kv_cache') = FullCaches(kv_cache)
            /\ \A l \in Layers :
                  kv_cache'[l].streaming_budget = kv_cache[l].streaming_budget
            /\ UNCHANGED << freqs_cis, streaming_freqs, max_batch_size,
                            max_seq_length, target_vars >>
      /\ (last'.op \in {"forward", "prefill"}) =>
            /\ DraftCaches(kv_cache') = DraftCaches(kv_cache)
            /\ UNCHANGED << freqs_cis, streaming_freqs >> ]_vars

\* C22's case: the full cache was written before and after draft_prefill
\* calls, one of which took the rotated snapshot, and the draft cache still
\* holds the snapshot after the later target call.
C22_Witness ==
  /\ last.op = "prefill" /\ last.n = 1 /\ last.cache_seqlens[1] = 1
  /\ ncalls >= 2
  /\ kv_cache[1].k_cache[1][1] # ZeroK
  /\ kv_cache[1].k_cache[1][2] # ZeroK
  /\ \E i \in 1..SB : DraftK(1, 1)[i].rot = 1
  /\ DraftV(1, 1)[1] = ValOf(1, 1, 1)

====
